---- MODULE Spec2Model ----
(***************************************************************************)
(* A model of src/util/excel.py: extract_cells_by_column_range and its     *)
(* column-letter adapter extract_cells_by_column_letters.                  *)
(*                                                                         *)
(* One behaviour is one call.  Init fixes the file system (one workbook,   *)
(* "data.xlsx", with one sheet, "Sheet1", whose populated cells are drawn  *)
(* from a small grid) and the arguments of the call; the actions are the   *)
(* statements of the two functions, one action per statement group.        *)
(*                                                                         *)
(* Python values: None is the empty tuple; an optional integer n is <<n>>; *)
(* a string is a sequence of one-character strings; list and tuple indices *)
(* stored in program data are Python's (0-based), so element i of a Python *)
(* list xs is xs[i + 1] here.                                              *)
(*                                                                         *)
(* The openpyxl calls are modelled by what the library does:               *)
(*   load_workbook(p)        raises FileNotFoundError when p does not exist*)
(*   worksheet.cell(row, c)  raises ValueError when row < 1 or c < 1, and  *)
(*                           otherwise yields the cell (value None when    *)
(*                           the cell is not populated)                    *)
(*   worksheet.max_row       the largest populated row, 1 for an empty     *)
(*                           sheet                                         *)
(*   get_column_letter(n)    raises ValueError unless 1 <= n <= 18278      *)
(*   column_index_from_string(s) is case-insensitive and raises ValueError *)
(*                           unless s is one to three letters              *)
(***************************************************************************)
EXTENDS Integers, Sequences, FiniteSets, TLC

\* ------------------------------------------------------------------ bounds

\* Rows 1..MaxRow of the sheet may hold data; row arguments range over
\* 0..MaxRow+1, so windows reach below row 1 and beyond the populated area.
MaxRow == 2

\* The largest column index openpyxl names (column "ZZZ").
MaxColumnIndex == 18278

\* ------------------------------------------------------------ Python values

None == <<>>

Alphabet ==
    <<"A","B","C","D","E","F","G","H","I","J","K","L","M",
      "N","O","P","Q","R","S","T","U","V","W","X","Y","Z">>

LowerCase ==
    <<"a","b","c","d","e","f","g","h","i","j","k","l","m",
      "n","o","p","q","r","s","t","u","v","w","x","y","z">>

Digits == <<"0","1","2","3","4","5","6","7","8","9">>

\* str.upper() on one character.
Upper(ch) ==
    IF \E i \in 1..26 : LowerCase[i] = ch
    THEN Alphabet[CHOOSE i \in 1..26 : LowerCase[i] = ch]
    ELSE ch

IsLetter(ch) == \E i \in 1..26 : Alphabet[i] = ch

LetterValue(ch) == CHOOSE i \in 1..26 : Alphabet[i] = ch

\* str(n) for n >= 0.
RECURSIVE Decimal(_)
Decimal(n) ==
    IF n < 10 THEN <<Digits[n + 1]>>
    ELSE Decimal(n \div 10) \o <<Digits[(n % 10) + 1]>>

\* ---------------------------------------------------- openpyxl.utils helpers

\* get_column_letter(n) for 1 <= n <= MaxColumnIndex: bijective base 26.
RECURSIVE ColumnLetters(_)
ColumnLetters(n) ==
    IF n = 0 THEN <<>>
    ELSE LET r == ((n - 1) % 26) + 1
         IN  ColumnLetters((n - r) \div 26) \o <<Alphabet[r]>>

GetColumnLetterRaises(n) == ~(1 <= n /\ n <= MaxColumnIndex)

get_column_letter(n) == ColumnLetters(n)

\* column_index_from_string(s): a lookup of s.upper() among "A".."ZZZ".
ColumnIndexRaises(s) ==
    ~(Len(s) \in 1..3 /\ \A i \in 1..Len(s) : IsLetter(Upper(s[i])))

RECURSIVE ColumnIndex(_)
ColumnIndex(s) ==
    IF s = <<>> THEN 0
    ELSE 26 * ColumnIndex(SubSeq(s, 1, Len(s) - 1)) + LetterValue(Upper(s[Len(s)]))

column_index_from_string(s) == ColumnIndex(s)

\* Mutant of CellAddress: the row number is left out of the address.
CellAddressWithoutRow(col, row) == get_column_letter(col)

\* The f-string of line 82.
CellAddress(col, row) == get_column_letter(col) \o Decimal(row)

\* ------------------------------------------------------------- environment

\* The one file that exists, and the sheets of its workbook.
ExistingFile == "data.xlsx"

sheetnames == <<"Sheet1">>

\* The cells of "Sheet1" that may hold data: columns A and B of rows
\* 1..MaxRow, and AA1.
SheetCells == ((1..MaxRow) \X {1, 2}) \cup {<<1, 27>>}

Files == {ExistingFile, "missing.xlsx"}

SheetNameArgs == {"Sheet1", "Summary"}

\* (start_column, end_column) of a call by numbers: bad ranges, one and two
\* columns wide, across the "Z" -> "AA" carry, and past the last column name.
ColumnPairs ==
    {<<0, 1>>, <<2, 1>>, <<1, 1>>, <<1, 2>>, <<2, 3>>, <<26, 27>>,
     <<MaxColumnIndex, MaxColumnIndex + 1>>}

\* (start_column, end_column) of a call by letters.
LetterPairs ==
    {<< <<"A">>, <<"B">> >>, << <<"a">>, <<"B">> >>, << <<"B">>, <<"A">> >>,
     << <<"Z">>, <<"A","a">> >>, << <<"A">>, <<"A","1">> >>, << <<>>, <<"B">> >>}

RowArgs == 0 .. (MaxRow + 1)

OptionalRowArgs == {None} \cup {<<n>> : n \in RowArgs}

\* ------------------------------------------------------------------- state

VARIABLES
    populated,        \* the (row, column) pairs of "Sheet1" that hold a value
    entry,            \* which function was called: "range" or "letters"
    letters,          \* arguments of extract_cells_by_column_letters
    start_col_num,    \* its locals (lines 136-137)
    end_col_num,
    args,             \* arguments of extract_cells_by_column_range
    pc,               \* the statement about to run
    workbook,         \* the handle: "none", "open" or "closed"
    end_row,          \* the effective end row (lines 65-66); 0 until then
    extracted_data,   \* line 68
    cell_mapping,     \* line 69
    data_row_index,   \* line 71
    row_iter,         \* next value of range(start_row, end_row + 1)
    row_idx,
    row_data,
    row_has_data,
    col_iter,         \* next value of range(start_column, end_column + 1)
    col_idx,
    raised,           \* None, or the exception that left the call
    returned,         \* None, or <<extracted_data, cell_mapping>> as returned
    events            \* history: the workbook opens, cell reads and closes

vars ==
    <<populated, entry, letters, start_col_num, end_col_num, args, pc, workbook,
      end_row, extracted_data, cell_mapping, data_row_index, row_iter, row_idx,
      row_data, row_has_data, col_iter, col_idx, raised, returned, events>>

locals ==
    <<end_row, extracted_data, cell_mapping, data_row_index, row_iter, row_idx,
      row_data, row_has_data, col_iter, col_idx>>

EmptyMapping == [a \in {} |-> <<0, 0>>]

\* Argument records of a frame that has not been entered.
NoArgs ==
    [file_path |-> "", sheet_name |-> "", start_column |-> 0, end_column |-> 0,
     start_row |-> 0, end_row |-> None, include_empty |-> FALSE]

RangeCalls ==
    [file_path : Files, sheet_name : SheetNameArgs,
     start_column : {p[1] : p \in ColumnPairs}, end_column : {p[2] : p \in ColumnPairs},
     start_row : RowArgs, end_row : OptionalRowArgs, include_empty : BOOLEAN]

LetterCalls ==
    [file_path : Files, sheet_name : SheetNameArgs,
     start_column : {p[1] : p \in LetterPairs}, end_column : {p[2] : p \in LetterPairs},
     start_row : RowArgs, end_row : OptionalRowArgs, include_empty : BOOLEAN]

\* worksheet.cell(row, column).value for row, column >= 1.
CellValue(row, col) == IF <<row, col>> \in populated THEN <<row, col>> ELSE None

\* worksheet.max_row.
max_row ==
    IF populated = {} THEN 1
    ELSE CHOOSE r \in {q[1] : q \in populated} : \A q \in populated : q[1] <= r

InitLocals ==
    /\ start_col_num = 0
    /\ end_col_num = 0
    /\ workbook = "none"
    /\ end_row = 0
    /\ extracted_data = <<>>
    /\ cell_mapping = EmptyMapping
    /\ data_row_index = 0
    /\ row_iter = 0
    /\ row_idx = 0
    /\ row_data = <<>>
    /\ row_has_data = FALSE
    /\ col_iter = 0
    /\ col_idx = 0
    /\ raised = None
    /\ returned = None
    /\ events = <<>>

\* A call of extract_cells_by_column_range.
InitRange ==
    /\ populated \in SUBSET SheetCells
    /\ entry = "range"
    /\ letters = NoArgs
    /\ args \in RangeCalls
    /\ <<args.start_column, args.end_column>> \in ColumnPairs
    /\ pc = "load_workbook"
    /\ InitLocals

\* A call of extract_cells_by_column_letters.
InitLetters ==
    /\ populated \in SUBSET SheetCells
    /\ entry = "letters"
    /\ letters \in LetterCalls
    /\ <<letters.start_column, letters.end_column>> \in LetterPairs
    /\ args = NoArgs
    /\ pc = "convert"
    /\ InitLocals

Init == InitRange \/ InitLetters

\* ------------------------------------------- extract_cells_by_column_range

Raise(exc) ==
    /\ raised' = exc
    /\ pc' = "raised"

\* Lines 50-53: load_workbook, FileNotFoundError re-raised with the path.
LoadWorkbook ==
    /\ pc = "load_workbook"
    /\ \/ /\ args.file_path # ExistingFile
          /\ Raise(<<"FileNotFoundError", "Excel file not found", args.file_path>>)
          /\ UNCHANGED <<workbook, events>>
       \/ /\ args.file_path = ExistingFile
          /\ workbook' = "open"
          /\ events' = Append(events, <<"open">>)
          /\ pc' = "check_sheet"
          /\ UNCHANGED raised
    /\ UNCHANGED <<populated, entry, letters, start_col_num, end_col_num, args,
                   locals, returned>>

SheetMissing(name) == ~(\E i \in 1..Len(sheetnames) : sheetnames[i] = name)

\* Mutant of CheckSheet: the workbook is closed before the error is raised.
CheckSheetClosing ==
    /\ pc = "check_sheet"
    /\ \/ /\ SheetMissing(args.sheet_name)
          /\ workbook' = "closed"
          /\ events' = Append(events, <<"close">>)
          /\ Raise(<<"ValueError", "Sheet not found", args.sheet_name, sheetnames>>)
       \/ /\ ~SheetMissing(args.sheet_name)
          /\ pc' = "check_columns"
          /\ UNCHANGED <<raised, workbook, events>>
    /\ UNCHANGED <<populated, entry, letters, start_col_num, end_col_num, args,
                   locals, returned>>

\* Lines 55-58: the sheet must be one of workbook.sheetnames.
CheckSheet ==
    /\ pc = "check_sheet"
    /\ \/ /\ SheetMissing(args.sheet_name)
          /\ Raise(<<"ValueError", "Sheet not found", args.sheet_name, sheetnames>>)
       \/ /\ ~SheetMissing(args.sheet_name)
          /\ pc' = "check_columns"
          /\ UNCHANGED raised
    /\ UNCHANGED <<populated, entry, letters, start_col_num, end_col_num, args,
                   workbook, locals, returned, events>>

\* Mutant of InvalidColumnRange: only the start column is checked.
InvalidColumnRangeStartOnly(start_column, end_column) == start_column < 1

\* The condition of line 61.
InvalidColumnRange(start_column, end_column) ==
    start_column < 1 \/ end_column < start_column

\* Lines 60-62: the column range.
CheckColumns ==
    /\ pc = "check_columns"
    /\ \/ /\ InvalidColumnRange(args.start_column, args.end_column)
          /\ Raise(<<"ValueError", "Invalid column range",
                     args.start_column, args.end_column>>)
       \/ /\ ~InvalidColumnRange(args.start_column, args.end_column)
          /\ pc' = "resolve_end_row"
          /\ UNCHANGED raised
    /\ UNCHANGED <<populated, entry, letters, start_col_num, end_col_num, args,
                   workbook, locals, returned, events>>

\* Mutant of EffectiveEndRow: the end_row argument is ignored.
EffectiveEndRowOfSheet(end_row_arg) == max_row

\* Lines 64-66.
EffectiveEndRow(end_row_arg) ==
    IF end_row_arg = None THEN max_row ELSE end_row_arg[1]

\* Lines 64-72: the end row, the empty results, the counter, the row iterator.
ResolveEndRow ==
    /\ pc = "resolve_end_row"
    /\ end_row' = EffectiveEndRow(args.end_row)
    /\ extracted_data' = <<>>
    /\ cell_mapping' = EmptyMapping
    /\ data_row_index' = 0
    /\ row_iter' = args.start_row
    /\ pc' = "row_loop"
    /\ UNCHANGED <<populated, entry, letters, start_col_num, end_col_num, args,
                   workbook, row_idx, row_data, row_has_data, col_iter, col_idx,
                   raised, returned, events>>

\* Lines 72-76: the next row of range(start_row, end_row + 1) starts.
RowStart ==
    /\ pc = "row_loop"
    /\ row_iter <= end_row
    /\ row_idx' = row_iter
    /\ row_iter' = row_iter + 1
    /\ row_data' = <<>>
    /\ row_has_data' = FALSE
    /\ col_iter' = args.start_column
    /\ pc' = "col_loop"
    /\ UNCHANGED <<populated, entry, letters, start_col_num, end_col_num, args,
                   workbook, end_row, extracted_data, cell_mapping, data_row_index,
                   col_idx, raised, returned, events>>

\* Mutant of AppendValue: the value is put in front.
PrependValue(row, value) == <<value>> \o row

\* Line 79.
AppendValue(row, value) == Append(row, value)

\* Mutant of MappingEntry: the sheet column is recorded as it is.
MappingEntrySheetColumn(counter, col, start_column) == <<counter, col>>

\* Line 83: the pair recorded for a cell.
MappingEntry(counter, col, start_column) == <<counter, col - start_column>>

\* Line 83: cell_mapping[cell_address] = pair.
SetItem(mapping, key, value) ==
    [k \in DOMAIN mapping \cup {key} |-> IF k = key THEN value ELSE mapping[k]]

\* Lines 76-86: one cell of the row.
ReadCell ==
    /\ pc = "col_loop"
    /\ col_iter <= args.end_column
    /\ col_idx' = col_iter
    /\ col_iter' = col_iter + 1
    /\ \/ \* worksheet.cell refuses a row below 1 (line 77)
          /\ row_idx < 1
          /\ Raise(<<"ValueError", "Row or column values must be at least 1">>)
          /\ UNCHANGED <<row_data, cell_mapping, row_has_data, events>>
       \/ \* get_column_letter refuses the column (line 82), the cell being read
          /\ row_idx >= 1
          /\ GetColumnLetterRaises(col_iter)
          /\ events' = Append(events, <<"read", row_idx, col_iter>>)
          /\ row_data' = AppendValue(row_data, CellValue(row_idx, col_iter))
          /\ Raise(<<"ValueError", "Invalid column index", col_iter>>)
          /\ UNCHANGED <<cell_mapping, row_has_data>>
       \/ /\ row_idx >= 1
          /\ ~GetColumnLetterRaises(col_iter)
          /\ events' = Append(events, <<"read", row_idx, col_iter>>)
          /\ row_data' = AppendValue(row_data, CellValue(row_idx, col_iter))
          /\ cell_mapping' =
                SetItem(cell_mapping, CellAddress(col_iter, row_idx),
                        MappingEntry(data_row_index, col_iter, args.start_column))
          /\ row_has_data' = (row_has_data \/ CellValue(row_idx, col_iter) # None)
          /\ UNCHANGED <<pc, raised>>
    /\ UNCHANGED <<populated, entry, letters, start_col_num, end_col_num, args,
                   workbook, end_row, extracted_data, data_row_index, row_iter,
                   row_idx, returned>>

\* Mutant of KeepRow: include_empty is ignored.
KeepRowWithData(has_data, include_empty) == has_data

\* The condition of line 89.
KeepRow(has_data, include_empty) == has_data \/ include_empty

\* Mutant of NextDataRowIndex: the counter is not advanced.
SameDataRowIndex(counter) == counter

\* Line 91.
NextDataRowIndex(counter) == counter + 1

\* Lines 88-91: the row is kept or dropped once its columns are done.
RowEnd ==
    /\ pc = "col_loop"
    /\ col_iter > args.end_column
    /\ IF KeepRow(row_has_data, args.include_empty)
       THEN /\ extracted_data' = Append(extracted_data, row_data)
            /\ data_row_index' = NextDataRowIndex(data_row_index)
       ELSE UNCHANGED <<extracted_data, data_row_index>>
    /\ pc' = "row_loop"
    /\ UNCHANGED <<populated, entry, letters, start_col_num, end_col_num, args,
                   workbook, end_row, cell_mapping, row_iter, row_idx, row_data,
                   row_has_data, col_iter, col_idx, raised, returned, events>>

\* Mutant of CloseWorkbook: the function returns without closing.
LeaveWorkbookOpen ==
    /\ pc = "row_loop"
    /\ row_iter > end_row
    /\ pc' = "return"
    /\ UNCHANGED <<populated, entry, letters, start_col_num, end_col_num, args,
                   workbook, locals, raised, returned, events>>

\* Line 93: workbook.close(), once the rows are exhausted.
CloseWorkbook ==
    /\ pc = "row_loop"
    /\ row_iter > end_row
    /\ workbook' = "closed"
    /\ events' = Append(events, <<"close">>)
    /\ pc' = "return"
    /\ UNCHANGED <<populated, entry, letters, start_col_num, end_col_num, args,
                   locals, raised, returned>>

\* Line 95.
Return ==
    /\ pc = "return"
    /\ returned' = <<extracted_data, cell_mapping>>
    /\ pc' = "done"
    /\ UNCHANGED <<populated, entry, letters, start_col_num, end_col_num, args,
                   workbook, locals, raised, events>>

\* ----------------------------------------- extract_cells_by_column_letters

\* Lines 135-139: both letters are converted; a failure is re-raised.
ConvertLetters ==
    /\ pc = "convert"
    /\ \/ /\ ColumnIndexRaises(letters.start_column)
          /\ Raise(<<"ValueError", "Invalid column letters", letters.start_column>>)
          /\ UNCHANGED <<start_col_num, end_col_num>>
       \/ /\ ~ColumnIndexRaises(letters.start_column)
          /\ ColumnIndexRaises(letters.end_column)
          /\ Raise(<<"ValueError", "Invalid column letters", letters.end_column>>)
          /\ start_col_num' = column_index_from_string(letters.start_column)
          /\ UNCHANGED end_col_num
       \/ /\ ~ColumnIndexRaises(letters.start_column)
          /\ ~ColumnIndexRaises(letters.end_column)
          /\ start_col_num' = column_index_from_string(letters.start_column)
          /\ end_col_num' = column_index_from_string(letters.end_column)
          /\ pc' = "delegate"
          /\ UNCHANGED raised
    /\ UNCHANGED <<populated, entry, letters, args, workbook, locals, returned,
                   events>>

\* Mutant of DelegatedArgs: the optional arguments are not passed on.
DelegatedArgsDefaults(la, start_num, end_num) ==
    [file_path |-> la.file_path, sheet_name |-> la.sheet_name,
     start_column |-> start_num, end_column |-> end_num,
     start_row |-> 1, end_row |-> None, include_empty |-> FALSE]

\* Lines 141-143: the arguments handed to extract_cells_by_column_range.
DelegatedArgs(la, start_num, end_num) ==
    [file_path |-> la.file_path, sheet_name |-> la.sheet_name,
     start_column |-> start_num, end_column |-> end_num,
     start_row |-> la.start_row, end_row |-> la.end_row,
     include_empty |-> la.include_empty]

\* Lines 141-143: the call; its result or exception is the adapter's own.
Delegate ==
    /\ pc = "delegate"
    /\ args' = DelegatedArgs(letters, start_col_num, end_col_num)
    /\ pc' = "load_workbook"
    /\ UNCHANGED <<populated, entry, letters, start_col_num, end_col_num,
                   workbook, locals, raised, returned, events>>

\* -------------------------------------------------------------- behaviours

Next ==
    \/ ConvertLetters
    \/ Delegate
    \/ LoadWorkbook
    \/ CheckSheet
    \/ CheckColumns
    \/ ResolveEndRow
    \/ RowStart
    \/ ReadCell
    \/ RowEnd
    \/ CloseWorkbook
    \/ Return

Spec == Init /\ [][Next]_vars

\* ---------------------------------------------- what a call is expected to do
\* The definitions below restate, as functions of the arguments a and of the
\* sheet, the quantities the properties speak of.  They read the environment
\* (populated, max_row, sheetnames) and never the steps of the call.

Max0(n) == IF n > 0 THEN n ELSE 0

\* The effective end row: the sheet's last populated row when end_row is omitted.
EndRowOf(a) == IF a.end_row = None THEN max_row ELSE a.end_row[1]

RowsOf(a) == a.start_row .. EndRowOf(a)

ColumnsOf(a) == a.start_column .. a.end_column

RowCount(a) == EndRowOf(a) - a.start_row + 1

ColumnCount(a) == a.end_column - a.start_column + 1

HasData(a, r) == \E c \in ColumnsOf(a) : <<r, c>> \in populated

Kept(a, r) == a.include_empty \/ HasData(a, r)

KeptRows(a) == {r \in RowsOf(a) : Kept(a, r)}

KeptBefore(a, r) == Cardinality({q \in KeptRows(a) : q < r})

RowValues(a, r) == [j \in 1..ColumnCount(a) |-> CellValue(r, a.start_column + j - 1)]

RECURSIVE TableOfRows(_, _, _)
TableOfRows(a, lo, hi) ==
    IF lo > hi THEN <<>>
    ELSE (IF Kept(a, lo) THEN <<RowValues(a, lo)>> ELSE <<>>) \o TableOfRows(a, lo + 1, hi)

ExpectedTable(a) == TableOfRows(a, a.start_row, EndRowOf(a))

ExpectedMapping(a) ==
    [k \in {CellAddress(p[2], p[1]) : p \in RowsOf(a) \X ColumnsOf(a)} |->
        LET p == CHOOSE q \in RowsOf(a) \X ColumnsOf(a) : CellAddress(q[2], q[1]) = k
        IN  <<KeptBefore(a, p[1]), p[2] - a.start_column>>]

\* The exception a call with arguments a ends with, None when it returns.
ExpectedRaised(a) ==
    IF a.file_path # ExistingFile
    THEN <<"FileNotFoundError", "Excel file not found", a.file_path>>
    ELSE IF \A i \in 1..Len(sheetnames) : sheetnames[i] # a.sheet_name
    THEN <<"ValueError", "Sheet not found", a.sheet_name, sheetnames>>
    ELSE IF a.start_column < 1 \/ a.end_column < a.start_column
    THEN <<"ValueError", "Invalid column range", a.start_column, a.end_column>>
    ELSE IF RowCount(a) <= 0
    THEN None
    ELSE IF a.start_row < 1
    THEN <<"ValueError", "Row or column values must be at least 1">>
    ELSE IF a.end_column > MaxColumnIndex
    THEN <<"ValueError", "Invalid column index",
           IF a.start_column > MaxColumnIndex THEN a.start_column ELSE MaxColumnIndex + 1>>
    ELSE None

\* The call has ended, by a return or by an exception.
Ended == pc \in {"done", "raised"}

\* extract_cells_by_column_range has been entered.
RangeEntered == args # NoArgs

ReadEvents == {i \in 1..Len(events) : events[i][1] = "read"}

\* ---------------------------------------------------------------- properties

\* C1: after a successful call, every cell (r, c) of a kept scanned row has a
\* mapping entry (i, k) with 0 <= i < len(table), k = c - start_column,
\* 0 <= k < len(table[i]), and table[i][k] is the value of that sheet cell.
C1_KeptCellsAreMapped ==
    pc = "done" =>
        LET table == returned[1]
            mapping == returned[2]
        IN  \A r \in RowsOf(args) : \A c \in ColumnsOf(args) :
                Kept(args, r) =>
                    /\ CellAddress(c, r) \in DOMAIN mapping
                    /\ LET e == mapping[CellAddress(c, r)]
                       IN  /\ 0 <= e[1] /\ e[1] < Len(table)
                           /\ e[2] = c - args.start_column
                           /\ 0 <= e[2] /\ e[2] < Len(table[e[1] + 1])
                           /\ table[e[1] + 1][e[2] + 1] = CellValue(r, c)

\* A successful call without include_empty in which a row holding data follows
\* a dropped row: the kept row's table index differs from its window offset.
C1_Witness ==
    /\ pc = "done"
    /\ ~args.include_empty
    /\ \E q, r \in RowsOf(args) : q < r /\ ~HasData(args, q) /\ HasData(args, r)

\* C2 as stated: the mapping has (end_row - start_row + 1) * (end_column -
\* start_column + 1) entries for any integers start_row and end_row.
C2_Original ==
    pc = "done" =>
        Cardinality(DOMAIN returned[2]) = RowCount(args) * ColumnCount(args)

\* C2, amended: the mapping a call returns has
\* max(0, end_row - start_row + 1) * (end_column - start_column + 1) entries,
\* end_row being the effective end row, whether or not rows are dropped.
C2_MappingSize ==
    pc = "done" =>
        Cardinality(DOMAIN returned[2]) = Max0(RowCount(args)) * ColumnCount(args)

\* A successful two-column call that dropped a row and kept another.
C2_Witness ==
    /\ pc = "done"
    /\ ColumnCount(args) = 2
    /\ \E q, r \in RowsOf(args) : ~Kept(args, q) /\ Kept(args, r)
    /\ Cardinality(DOMAIN returned[2]) >= 4

\* C3 as stated: include_empty gives len(table) = end_row - start_row + 1, and
\* otherwise len(table) <= end_row - start_row + 1.
C3_Original ==
    pc = "done" =>
        IF args.include_empty
        THEN Len(returned[1]) = RowCount(args)
        ELSE Len(returned[1]) <= RowCount(args)

\* C3, amended: with n = max(0, end_row - start_row + 1), end_row being the
\* effective end row, include_empty gives len(table) = n and otherwise
\* len(table) <= n.
C3_TableLength ==
    pc = "done" =>
        IF args.include_empty
        THEN Len(returned[1]) = Max0(RowCount(args))
        ELSE Len(returned[1]) <= Max0(RowCount(args))

\* A successful call with include_empty that kept a row holding no data, its
\* end row given and beyond the populated rows.
C3_Witness ==
    /\ pc = "done"
    /\ args.include_empty
    /\ args.end_row # None
    /\ EndRowOf(args) > max_row
    /\ Len(returned[1]) >= 2
    /\ \E r \in RowsOf(args) : ~HasData(args, r)

\* C4: every row of the table has end_column - start_column + 1 entries, and
\* they are the values of one scanned sheet row in ascending column order.
C4_RowShape ==
    pc = "done" =>
        \A i \in 1..Len(returned[1]) :
            /\ Len(returned[1][i]) = ColumnCount(args)
            /\ \E r \in RowsOf(args) :
                  \A j \in 0..(ColumnCount(args) - 1) :
                      returned[1][i][j + 1] = CellValue(r, args.start_column + j)

\* A returned table with a row of two different values.
C4_Witness ==
    /\ pc = "done"
    /\ \E i \in 1..Len(returned[1]) :
          /\ Len(returned[1][i]) = 2
          /\ returned[1][i][1] # None
          /\ returned[1][i][2] # None
          /\ returned[1][i][1] # returned[1][i][2]

\* The arguments by numbers that a call by letters stands for.
NumberedCall ==
    IF entry = "letters"
    THEN [letters EXCEPT !.start_column = column_index_from_string(@),
                         !.end_column = column_index_from_string(@)]
    ELSE args

ValidLetters ==
    ~ColumnIndexRaises(letters.start_column) /\ ~ColumnIndexRaises(letters.end_column)

\* C5: a call by valid letters L1, L2 and the call by numbers num(L1), num(L2)
\* with the same remaining arguments end alike: each ends with the exception,
\* or returns the (table, mapping) pair, that the numbered arguments determine.
C5_LettersAgreeWithNumbers ==
    (Ended /\ (entry = "letters" => ValidLetters)) =>
        /\ raised = ExpectedRaised(NumberedCall)
        /\ raised = None =>
              returned = <<ExpectedTable(NumberedCall), ExpectedMapping(NumberedCall)>>

\* A call by lower-case letters that returned rows, one of them empty and kept.
C5_Witness ==
    /\ entry = "letters"
    /\ pc = "done"
    /\ letters.start_column = <<"a">>
    /\ letters.include_empty
    /\ \E r \in RowsOf(args) : HasData(args, r)
    /\ \E r \in RowsOf(args) : ~HasData(args, r)

\* C6 as stated: the outcome is FileNotFoundError if the file is missing, else
\* ValueError if the sheet is missing, else ValueError if the column range is
\* bad, else a (table, mapping) pair; and on every error no cell has been read
\* and nothing is returned.
C6_Original ==
    (Ended /\ RangeEntered) =>
        /\ IF args.file_path # ExistingFile
           THEN raised # None /\ raised[1] = "FileNotFoundError"
           ELSE IF \A i \in 1..Len(sheetnames) : sheetnames[i] # args.sheet_name
           THEN raised # None /\ raised[1] = "ValueError" /\ raised[2] = "Sheet not found"
           ELSE IF args.start_column < 1 \/ args.end_column < args.start_column
           THEN raised # None /\ raised[1] = "ValueError"
                /\ raised[2] = "Invalid column range"
           ELSE raised = None /\ returned # None
        /\ raised # None => (returned = None /\ ReadEvents = {})

\* The scan itself fails: the window holds a row below 1, or a column past the
\* last column name.
ScanFails(a) ==
    /\ RowCount(a) > 0
    /\ a.start_row < 1 \/ a.end_column > MaxColumnIndex

\* C6, amended: the outcome is FileNotFoundError if the file is missing, else
\* ValueError if the sheet is missing, else ValueError if the column range is
\* bad, else a ValueError of the library if the row window is not empty and
\* starts below row 1 or the column range ends past column 18278, else a
\* complete (table, mapping) pair.  On every error nothing is returned; no
\* cell has been read on any of them but the column-index error.
C6_OutcomeOrder ==
    (Ended /\ RangeEntered) =>
        /\ IF args.file_path # ExistingFile
           THEN raised # None /\ raised[1] = "FileNotFoundError"
           ELSE IF \A i \in 1..Len(sheetnames) : sheetnames[i] # args.sheet_name
           THEN raised # None /\ raised[1] = "ValueError" /\ raised[2] = "Sheet not found"
           ELSE IF args.start_column < 1 \/ args.end_column < args.start_column
           THEN raised # None /\ raised[1] = "ValueError"
                /\ raised[2] = "Invalid column range"
           ELSE IF ScanFails(args)
           THEN raised # None /\ raised[1] = "ValueError"
                /\ raised[2] = (IF args.start_row < 1
                                THEN "Row or column values must be at least 1"
                                ELSE "Invalid column index")
           ELSE /\ raised = None
                /\ returned # None
                /\ Len(returned[1]) = Cardinality(KeptRows(args))
                /\ Cardinality(DOMAIN returned[2])
                      = Max0(RowCount(args)) * ColumnCount(args)
        /\ raised # None =>
              /\ returned = None
              /\ raised[2] # "Invalid column index" => ReadEvents = {}

\* The sheet check decides although the column range is bad too.
C6_Witness ==
    /\ pc = "raised"
    /\ RangeEntered
    /\ args.file_path = ExistingFile
    /\ raised[2] = "Sheet not found"
    /\ args.end_column < args.start_column

\* C7: a call that returns has opened the workbook once, then read exactly the
\* cells of the window, row by row, then closed the workbook once; the handle
\* is closed when the result is returned.
C7_OpenScanClose ==
    returned # None =>
        /\ workbook = "closed"
        /\ Len(events) = 2 + Max0(RowCount(args)) * ColumnCount(args)
        /\ events[1][1] = "open"
        /\ events[Len(events)][1] = "close"
        /\ \A i \in 2..(Len(events) - 1) :
              events[i] = <<"read",
                            args.start_row + ((i - 2) \div ColumnCount(args)),
                            args.start_column + ((i - 2) % ColumnCount(args))>>

\* A returned call that read at least four cells.
C7_Witness ==
    /\ returned # None
    /\ Cardinality(ReadEvents) >= 4

\* C8: the table is the sequence, in ascending row order, of the scanned rows
\* that hold data in the column range (all scanned rows with include_empty);
\* and whenever a row's scan starts the counter is the length of the table.
C8_TableIsKeptRows ==
    /\ pc = "done" => returned[1] = ExpectedTable(args)
    /\ pc \in {"row_loop", "col_loop"} => data_row_index = Len(extracted_data)

\* A returned table without include_empty whose window had a dropped row
\* before a kept one and a dropped row after it.
C8_Witness ==
    /\ pc = "done"
    /\ ~args.include_empty
    /\ \E q, r, t \in RowsOf(args) :
          q < r /\ r < t /\ ~HasData(args, q) /\ HasData(args, r) /\ ~HasData(args, t)

C10_HandleLeftOpen ==
    /\ (raised # None /\ raised[2] \in {"Sheet not found", "Invalid column range"}) =>
          /\ workbook = "open"
          /\ events = << <<"open">> >>
    /\ workbook = "closed" => pc \in {"return", "done"}

\* The column-range error, raised with the workbook open.
C10_Witness ==
    /\ pc = "raised"
    /\ raised[2] = "Invalid column range"
    /\ workbook = "open"

====
